---- MODULE Spec2Model ----
(***************************************************************************)
(* showbook-API: the FastAPI backend of backend/main.py over the MongoDB   *)
(* collections of backend/database.py.  Every request is a coroutine; the  *)
(* coroutines interleave at their awaits (the storage operations), and the *)
(* server's findAndModify with upsert is a query followed by an insert:    *)
(* without a unique index on the filter fields the two are not one atomic  *)
(* step.  Time is counted in ticks of 1/TicksPerSecond second; the JWT     *)
(* library keeps and compares whole seconds.                               *)
(***************************************************************************)
EXTENDS Integers, Sequences, FiniteSets, TLC

VARIABLES
    now,                          \* datetime.utcnow(), in ticks
    environ,                      \* os.environ after load_dotenv(): the names set
    process,                      \* where the server process is: importing
                                  \* database.py, running main.py's module
                                  \* code, serving, or failed
    ACCESS_TOKEN_EXPIRE_MINUTES,  \* main.py:19, read once from the environment
    users_collection,             \* database.py:11, in insertion order
    movies_collection,            \* database.py:12, set of documents
    movie_oids,                   \* number of ObjectIds handed to movies so far
    cinema_halls_collection,      \* database.py:13
    screens_collection,           \* database.py:14
    shows_collection,             \* database.py:15, in insertion order
    bookings_collection,          \* database.py:16, in insertion order
    tokens,                       \* what /token returned so far: [jwt, iat], the
                                  \* access token and the instant it was made
    req                           \* the requests being served, one per worker

vars == <<now, environ, process, ACCESS_TOKEN_EXPIRE_MINUTES, users_collection,
          movies_collection, movie_oids, cinema_halls_collection,
          screens_collection, shows_collection, bookings_collection, tokens, req>>

config == <<environ, process, ACCESS_TOKEN_EXPIRE_MINUTES>>

collections == <<users_collection, movies_collection, cinema_halls_collection,
                 screens_collection, shows_collection, bookings_collection>>

catalog == <<movies_collection, movie_oids, cinema_halls_collection,
             screens_collection, shows_collection>>

(***************************************************************************)
(* Bounds of the model.                                                    *)
(***************************************************************************)
MaxProcs == 2           \* requests served at the same time
MaxUsers == 2           \* user documents
MaxBookings == 2        \* booking documents
MaxTokens == 2          \* tokens handed out
MaxMovies == 1          \* movie ObjectIds handed out
MaxShows == 1           \* show documents
MaxHalls == 1           \* cinema hall documents
MaxScreens == 1         \* screen documents
MaxSeat == 6            \* highest seat number asked for
MaxTicks == 2           \* single clock ticks after a whole minute
MaxMinutes == 1         \* whole minutes the clock runs
MaxTtlMinutes == 1      \* largest configured ACCESS_TOKEN_EXPIRE_MINUTES
TicksPerSecond == 2     \* resolution of the clock

MinSeat == 5
DefaultExpireMinutes == 15      \* main.py:37
SecondsPerMinute == 60
ResultCap == 100                \* main.py:184, to_list(length=100)

ConfigNames == {"MONGODB_URL", "SECRET_KEY", "ALGORITHM",
                "ACCESS_TOKEN_EXPIRE_MINUTES"}
Procs == 1..MaxProcs
Emails == {"a@x.io", "b@x.io"}
Passwords == {"pw1"}
WrongPassword == "pw0"
ShowIds == {"S", "T"}
Seats == MinSeat..MaxSeat
Titles == {"t1", "t2"}
TicksPerMinute == SecondsPerMinute * TicksPerSecond
Times == {k + j * TicksPerMinute : k \in 0..MaxTicks, j \in 0..MaxMinutes}

(***************************************************************************)
(* Identifiers.  An ObjectId is a positive number; str(ObjectId) and the   *)
(* id strings of request bodies and paths are tagged strings, and          *)
(* ObjectId(s) parses one back or raises InvalidId.                        *)
(***************************************************************************)
str(oid) == <<"str", oid>>
BadIdString == <<"str", 0>>
ValidObjectId(s) == s[2] >= 1
ObjectId(s) == s[2]

(***************************************************************************)
(* Credential store: passlib's bcrypt context.                             *)
(***************************************************************************)
get_password_hash(password) == <<"bcrypt", password>>
verify_password(plain_password, hashed_password) ==
    hashed_password = <<"bcrypt", plain_password>>

(***************************************************************************)
(* Token service.  A credential is what the Authorization header carries:  *)
(* nothing, something that is no JWT, or a JWT with a signature (made with *)
(* SECRET_KEY or not), an optional subject and an expiry in whole seconds. *)
(***************************************************************************)
NoSub == "-"
NoToken == [kind |-> "none", sig |-> "-", sub |-> NoSub, exp |-> 0]
Malformed == [kind |-> "malformed", sig |-> "-", sub |-> NoSub, exp |-> 0]
Jwt(sig, sub, exp) == [kind |-> "jwt", sig |-> sig, sub |-> sub, exp |-> exp]

\* calendar.timegm(dt.utctimetuple()): the whole seconds of an instant
timegm(t) == t \div TicksPerSecond

\* jwt.encode and jwt.decode raise without a key or an algorithm name
jwt_usable == {"SECRET_KEY", "ALGORITHM"} \subseteq environ

create_access_token(sub, expires_delta) ==
    LET expire == IF expires_delta # 0
                  THEN now + expires_delta
                  ELSE now + DefaultExpireMinutes * TicksPerMinute
    IN  Jwt("SECRET_KEY", sub, timegm(expire))

\* (mutant) the expiry is not verified
jwt_decode_ok_noexp(token) ==
    /\ token.kind = "jwt"
    /\ token.sig = "SECRET_KEY"

\* jwt.decode raises JWTError (ExpiredSignatureError is one) or returns the
\* payload; the expiry is compared in whole seconds, exp < now

jwt_decode_ok(token) ==
    /\ jwt_usable
    /\ token.kind = "jwt"
    /\ token.sig = "SECRET_KEY"
    /\ ~(token.exp < timegm(now))

(***************************************************************************)
(* Users.                                                                  *)
(***************************************************************************)
NoUser == [_id |-> 0, email |-> "-", password |-> <<"bcrypt", "-">>, is_admin |-> FALSE]

\* users_collection.find_one({"email": email}): the first match, or None
get_user(email) ==
    LET hits == {i \in 1..Len(users_collection) : users_collection[i].email = email}
    IN  IF hits = {} THEN NoUser
        ELSE users_collection[CHOOSE i \in hits : \A j \in hits : i <= j]

\* (mutant) the password is not verified
authenticate_user_any_password(email, password) == get_user(email)

authenticate_user(email, password) ==
    LET user == get_user(email)
    IN  IF user = NoUser THEN NoUser
        ELSE IF ~verify_password(password, user.password) THEN NoUser
        ELSE user

(***************************************************************************)
(* Responses.                                                              *)
(***************************************************************************)
Bearer == "WWW-Authenticate: Bearer"
Response(status, detail) ==
    [status |-> status, detail |-> detail, headers |-> "-", data |-> <<>>]
Payload(data) == [status |-> 200, detail |-> "-", headers |-> "-", data |-> data]
Challenge(detail) ==
    [status |-> 401, detail |-> detail, headers |-> Bearer, data |-> <<>>]
NoResponse == Response(0, "-")

\* OAuth2PasswordBearer(tokenUrl="token") with auto_error: no bearer token, 401
oauth2_scheme_error == Challenge("Not authenticated")
credentials_exception == Challenge("Could not validate credentials")
Forbidden == Response(403, "Not enough permissions")

\* (mutant) the subject is not looked up
get_current_user_ok_no_lookup(token) ==
    /\ token.kind # "none"
    /\ jwt_decode_ok(token)
    /\ token.sub # NoSub

\* get_current_user: the user of the token, or the 401 it raises
get_current_user_ok(token) ==
    /\ token.kind # "none"
    /\ jwt_decode_ok(token)
    /\ token.sub # NoSub
    /\ get_user(token.sub) # NoUser

\* (mutant) an expired token is told apart
get_current_user_error_expired(token) ==
    IF token.kind = "none" THEN oauth2_scheme_error
    ELSE IF token.kind = "jwt" /\ token.exp < timegm(now)
    THEN Challenge("Signature has expired")
    ELSE credentials_exception

get_current_user_error(token) ==
    IF token.kind = "none" THEN oauth2_scheme_error ELSE credentials_exception

\* (mutant) the role is not looked at
is_admin_user_ok_anyone(user) == TRUE

\* is_admin_user
is_admin_user_ok(user) == user.is_admin

(***************************************************************************)
(* Requests.  A worker holds one request from its start to its response:   *)
(* the endpoint, the credential of the Authorization header, the body and  *)
(* path parameters a later step of the handler still reads, the user the   *)
(* token resolved to, the response, and the step at which the client went  *)
(* away, if it did.                                                        *)
(***************************************************************************)
NoBody == [id |-> BadIdString, show_id |-> "-", seat_number |-> 0,
           user_id |-> BadIdString, movie_id |-> BadIdString, title |-> "-"]
Idle == [pc |-> "idle", op |-> "-", cred |-> NoToken, body |-> NoBody,
         user |-> NoUser, resp |-> NoResponse, aborted |-> "-"]

AdminOps == {"create_cinema_hall", "create_screen", "create_show",
             "create_movie", "update_movie", "delete_movie"}
ReadOps == {"read_movie", "search_movies", "search_shows"}
AuthenticatedOps == AdminOps \cup ReadOps \cup {"create_booking"}

MovieIdStrings == {str(i) : i \in 0..MaxMovies}
UserIdStrings == {str(i) : i \in 1..MaxUsers}

BookingBodies ==
    {[NoBody EXCEPT !.show_id = s, !.seat_number = n, !.user_id = u] :
        s \in ShowIds, n \in Seats, u \in UserIdStrings}
ShowBodies == {[NoBody EXCEPT !.movie_id = m] : m \in MovieIdStrings}
MovieBodies == {[NoBody EXCEPT !.title = t] : t \in Titles}
MovieUpdateBodies ==
    {[NoBody EXCEPT !.id = m, !.title = t] : m \in MovieIdStrings, t \in Titles}
MovieIdBodies == {[NoBody EXCEPT !.id = m] : m \in MovieIdStrings}

\* What a client can put in the Authorization header: nothing, garbage, a
\* token it was given, such a token re-signed without SECRET_KEY, or a token
\* of another holder of the key that names no subject or a subject that
\* never signed up.
GhostEmail == "ghost@x.io"
FarFuture == timegm(now) + DefaultExpireMinutes * SecondsPerMinute
IssuedTokens == {t.jwt : t \in tokens}
ForgedTokens == {Jwt("other", e, FarFuture) : e \in Emails}
SubjectlessToken == Jwt("SECRET_KEY", NoSub, FarFuture)
GhostToken == Jwt("SECRET_KEY", GhostEmail, FarFuture)
Credentials ==
    {NoToken, Malformed, SubjectlessToken, GhostToken} \cup IssuedTokens
        \cup ForgedTokens

\* the response has been sent
Reply(p) ==
    /\ req[p].pc = "done"
    /\ req' = [req EXCEPT ![p] = Idle]
    /\ UNCHANGED <<now, config, collections, movie_oids, tokens>>

\* a worker takes a request when it holds none
Free(p) == req[p].pc = "idle"

\* current_user as the handler gets it from Depends(get_current_user)
resolved_user(cred) == IF get_current_user_ok(cred) THEN get_user(cred.sub) ELSE NoUser

Started(op, cred) == [Idle EXCEPT !.op = op, !.cred = cred, !.user = resolved_user(cred)]
Done(op, cred, response) ==
    [Started(op, cred) EXCEPT !.pc = "done", !.resp = response]
Respond(p, response) == [req EXCEPT ![p].pc = "done", ![p].resp = response]

\* Depends(get_current_user), and Depends(is_admin_user) on the admin routes:
\* the response that ends the request before its handler runs, or NoResponse
DependencyError(op, cred) ==
    IF ~get_current_user_ok(cred) THEN get_current_user_error(cred)
    ELSE IF op \in AdminOps /\ ~is_admin_user_ok(get_user(cred.sub)) THEN Forbidden
    ELSE NoResponse

(***************************************************************************)
(* POST /api/signup and POST /token.                                       *)
(***************************************************************************)
\* the is_admin field of a signup body: true, false, or left out
IsAdminFields == {"true", "false", "omitted"}

\* UserCreate.is_admin: Optional[bool] = False
UserCreate_is_admin(field) == IF field = "omitted" THEN FALSE ELSE field = "true"

\* (mutant) the record of the email is replaced when there is one
create_user_replacing(email, password, is_admin) ==
    LET user_dict == [_id |-> Len(users_collection) + 1, email |-> email,
                      password |-> get_password_hash(password),
                      is_admin |-> UserCreate_is_admin(is_admin)]
    IN  /\ Len(users_collection) < MaxUsers
        /\ users_collection' =
                IF get_user(email) = NoUser
                THEN Append(users_collection, user_dict)
                ELSE [i \in 1..Len(users_collection) |->
                        IF users_collection[i].email = email
                        THEN [user_dict EXCEPT !._id = i]
                        ELSE users_collection[i]]
        /\ UNCHANGED <<now, config, catalog,
                       bookings_collection, tokens, req>>

create_user(email, password, is_admin) ==
    /\ Len(users_collection) < MaxUsers
    /\ users_collection' = Append(users_collection,
            [_id |-> Len(users_collection) + 1, email |-> email,
             password |-> get_password_hash(password),
             is_admin |-> UserCreate_is_admin(is_admin)])
    /\ UNCHANGED <<now, config, catalog, bookings_collection,
                   tokens, req>>

IncorrectLogin == Challenge("Incorrect username or password")

\* what /token answers: the 401, the 500 of a jwt.encode that raises, or the
\* access token
login_for_access_token_response(username, password) ==
    LET user == authenticate_user(username, password)
        access_token_expires == ACCESS_TOKEN_EXPIRE_MINUTES * TicksPerMinute
    IN  IF user = NoUser THEN IncorrectLogin
        ELSE IF ~jwt_usable THEN Response(500, "Internal Server Error")
        ELSE Payload(<<create_access_token(user.email, access_token_expires)>>)

login_for_access_token(username, password) ==
    LET response == login_for_access_token_response(username, password)
        access_token == response.data[1]
    IN  /\ IF response.status # 200
           THEN UNCHANGED tokens
           ELSE /\ Cardinality(tokens \cup {[jwt |-> access_token, iat |-> now]})
                        <= MaxTokens
                /\ tokens' = tokens \cup {[jwt |-> access_token, iat |-> now]}
        /\ UNCHANGED <<now, config, collections, movie_oids, req>>

(***************************************************************************)
(* POST /api/bookings.                                                     *)
(***************************************************************************)
\* (mutant) the filter names the show alone
SlotMatches_show_only(doc, show_id, seat_number) ==
    doc.show_id = show_id

\* the filter of find_one_and_update
SlotMatches(doc, show_id, seat_number) ==
    doc.show_id = show_id /\ doc.seat_number = seat_number

Matching(show_id, seat_number) ==
    {i \in 1..Len(bookings_collection) :
        SlotMatches(bookings_collection[i], show_id, seat_number)}

\* (mutant) the user_id of the request body is kept
booking_dict_of_body(body, current_user) ==
    [show_id |-> body.show_id, seat_number |-> body.seat_number,
     user_id |-> body.user_id]

\* booking_dict = booking.dict(); booking_dict['user_id'] = str(current_user['_id'])
booking_dict(body, current_user) ==
    [show_id |-> body.show_id, seat_number |-> body.seat_number,
     user_id |-> str(current_user._id)]

\* the requests that may still insert a booking
Upserting == {q \in Procs : req[q].pc \in {"find_one_and_update", "upsert"}}

\* Depends(get_current_user), then lines 198-199
create_booking(p, cred, body) ==
    LET err == DependencyError("create_booking", cred)
    IN  /\ Free(p)
        /\ Len(bookings_collection) + Cardinality(Upserting) < MaxBookings
        /\ IF err # NoResponse
           THEN req' = [req EXCEPT ![p] = Done("create_booking", cred, err)]
           ELSE req' = [req EXCEPT ![p] =
                    [Started("create_booking", cred) EXCEPT
                        !.pc = "find_one_and_update", !.body = body]]
        /\ UNCHANGED <<now, config, collections, movie_oids, tokens>>

\* (mutant) {"$set": booking_dict}
setOnInsert_as_set(doc, fields) == fields

\* {"$setOnInsert": booking_dict} applied to a document that matched the filter
setOnInsert(doc, fields) == doc

\* find_one_and_update, the server's query: a match is returned as it was
\* (return_document=False) and the update changes nothing in it; no match
\* makes the server go on to insert
create_booking_query(p) ==
    LET r == req[p]
        hits == Matching(r.body.show_id, r.body.seat_number)
    IN  /\ r.pc = "find_one_and_update"
        /\ IF hits # {}
           THEN LET i == CHOOSE i \in hits : \A j \in hits : i <= j
                IN  /\ bookings_collection' =
                        [bookings_collection EXCEPT
                            ![i] = setOnInsert(@, booking_dict(r.body, r.user))]
                    /\ req' = Respond(p, Response(400, "Seat already booked"))
           ELSE /\ req' = [req EXCEPT ![p].pc = "upsert"]
                /\ UNCHANGED bookings_collection
        /\ UNCHANGED <<now, config, users_collection, catalog, tokens>>

\* find_one_and_update, the server's insert of the upsert: the collection has
\* no unique index, so the insert never fails; result is None
create_booking_upsert(p) ==
    LET r == req[p]
    IN  /\ r.pc = "upsert"
        /\ bookings_collection' =
                Append(bookings_collection, booking_dict(r.body, r.user))
        /\ req' = Respond(p, Response(200, "Booking successful"))
        /\ UNCHANGED <<now, config, users_collection, catalog, tokens>>

\* (mutant) a request cancelled after its insert takes its booking back
client_abort_rollback(p) ==
    /\ req[p].op = "create_booking"
    /\ req[p].pc = "done"
    /\ req[p].aborted = "-"
    /\ req' = [req EXCEPT ![p].aborted = req[p].pc]
    /\ bookings_collection' =
            IF req[p].resp.status = 200
            THEN SelectSeq(bookings_collection,
                    LAMBDA d : ~(/\ d.show_id = req[p].body.show_id
                                 /\ d.seat_number = req[p].body.seat_number))
            ELSE bookings_collection
    /\ UNCHANGED <<now, config, users_collection, catalog, tokens>>

\* The client of a create_booking request goes away before the response.
\* The handler has one await after its dependencies, the find_one_and_update:
\* a request cancelled before the command has left never reaches the
\* server; a command that has left is run by the server to its end whatever
\* becomes of the coroutine that awaits it, and its result is dropped.
client_abort(p) ==
    /\ req[p].op = "create_booking"
    /\ req[p].pc \in {"find_one_and_update", "upsert", "done"}
    /\ req[p].aborted = "-"
    /\ \/ req[p].pc = "find_one_and_update" /\ req' = [req EXCEPT ![p] = Idle]
       \/ req' = [req EXCEPT ![p].aborted = req[p].pc]
    /\ UNCHANGED <<now, config, collections, movie_oids, tokens>>

(***************************************************************************)
(* The administrative routes: Depends(is_admin_user), then one insert,     *)
(* update or delete.                                                       *)
(***************************************************************************)
Movie(oid, title) == [_id |-> oid, title |-> title]
MoviesWithId(oid) == {m \in movies_collection : m._id = oid}

create_cinema_hall(p, cred) ==
    LET err == DependencyError("create_cinema_hall", cred)
        hall_dict == [name |-> "hall"]
    IN  /\ Free(p)
        /\ IF err # NoResponse
           THEN /\ req' = [req EXCEPT ![p] = Done("create_cinema_hall", cred, err)]
                /\ UNCHANGED cinema_halls_collection
           ELSE /\ Len(cinema_halls_collection) < MaxHalls
                /\ cinema_halls_collection' = Append(cinema_halls_collection, hall_dict)
                /\ req' = [req EXCEPT ![p] =
                        Done("create_cinema_hall", cred, Payload(<<hall_dict>>))]
        /\ UNCHANGED <<now, config, users_collection,
                       movies_collection, movie_oids, screens_collection,
                       shows_collection, bookings_collection, tokens>>

create_screen(p, cred) ==
    LET err == DependencyError("create_screen", cred)
        screen_dict == [hall_id |-> "hall", name |-> "screen", total_seats |-> MaxSeat]
    IN  /\ Free(p)
        /\ IF err # NoResponse
           THEN /\ req' = [req EXCEPT ![p] = Done("create_screen", cred, err)]
                /\ UNCHANGED screens_collection
           ELSE /\ Len(screens_collection) < MaxScreens
                /\ screens_collection' = Append(screens_collection, screen_dict)
                /\ req' = [req EXCEPT ![p] =
                        Done("create_screen", cred, Payload(<<screen_dict>>))]
        /\ UNCHANGED <<now, config, users_collection,
                       movies_collection, movie_oids, cinema_halls_collection,
                       shows_collection, bookings_collection, tokens>>

create_show(p, cred, body) ==
    LET err == DependencyError("create_show", cred)
        show_dict == [movie_id |-> body.movie_id]
    IN  /\ Free(p)
        /\ IF err # NoResponse
           THEN /\ req' = [req EXCEPT ![p] = Done("create_show", cred, err)]
                /\ UNCHANGED shows_collection
           ELSE /\ Len(shows_collection) < MaxShows
                /\ shows_collection' = Append(shows_collection, show_dict)
                /\ req' = [req EXCEPT ![p] =
                        Done("create_show", cred, Payload(<<show_dict>>))]
        /\ UNCHANGED <<now, config, users_collection,
                       movies_collection, movie_oids, cinema_halls_collection,
                       screens_collection, bookings_collection, tokens>>

create_movie(p, cred, body) ==
    LET err == DependencyError("create_movie", cred)
        movie_dict == Movie(movie_oids + 1, body.title)
    IN  /\ Free(p)
        /\ IF err # NoResponse
           THEN /\ req' = [req EXCEPT ![p] = Done("create_movie", cred, err)]
                /\ UNCHANGED <<movies_collection, movie_oids>>
           ELSE /\ movie_oids < MaxMovies
                /\ movies_collection' = movies_collection \cup {movie_dict}
                /\ movie_oids' = movie_oids + 1
                /\ req' = [req EXCEPT ![p] =
                        Done("create_movie", cred, Payload(<<movie_dict>>))]
        /\ UNCHANGED <<now, config, users_collection,
                       cinema_halls_collection, screens_collection,
                       shows_collection, bookings_collection, tokens>>

\* ObjectId(id) raises InvalidId on a string that is no ObjectId: a 500
InvalidId == Response(500, "Internal Server Error")
MovieNotFound == Response(404, "Movie not found")

update_movie(p, cred, body) ==
    LET err == DependencyError("update_movie", cred)
        hit == IF ValidObjectId(body.id) THEN MoviesWithId(ObjectId(body.id)) ELSE {}
    IN  /\ Free(p)
        /\ IF err # NoResponse
           THEN /\ req' = [req EXCEPT ![p] = Done("update_movie", cred, err)]
                /\ UNCHANGED movies_collection
           ELSE IF ~ValidObjectId(body.id)
           THEN /\ req' = [req EXCEPT ![p] = Done("update_movie", cred, InvalidId)]
                /\ UNCHANGED movies_collection
           ELSE IF hit = {}
           THEN /\ req' = [req EXCEPT ![p] = Done("update_movie", cred, MovieNotFound)]
                /\ UNCHANGED movies_collection
           ELSE /\ movies_collection' = (movies_collection \ hit) \cup
                        {[m EXCEPT !.title = body.title] : m \in hit}
                /\ req' = [req EXCEPT ![p] =
                        Done("update_movie", cred, Response(200, "Movie updated"))]
        /\ UNCHANGED <<now, config, users_collection, movie_oids,
                       cinema_halls_collection, screens_collection,
                       shows_collection, bookings_collection, tokens>>

\* delete_movie up to its second await: movies_collection.delete_one
delete_movie(p, cred, body) ==
    LET err == DependencyError("delete_movie", cred)
        hit == IF ValidObjectId(body.id) THEN MoviesWithId(ObjectId(body.id)) ELSE {}
    IN  /\ Free(p)
        /\ IF err # NoResponse
           THEN /\ req' = [req EXCEPT ![p] = Done("delete_movie", cred, err)]
                /\ UNCHANGED movies_collection
           ELSE IF ~ValidObjectId(body.id)
           THEN /\ req' = [req EXCEPT ![p] = Done("delete_movie", cred, InvalidId)]
                /\ UNCHANGED movies_collection
           ELSE IF hit = {}
           THEN /\ req' = [req EXCEPT ![p] = Done("delete_movie", cred, MovieNotFound)]
                /\ UNCHANGED movies_collection
           ELSE /\ movies_collection' = movies_collection \ hit
                /\ req' = [req EXCEPT ![p] =
                        [Started("delete_movie", cred) EXCEPT
                            !.pc = "delete_many", !.body = body]]
        /\ UNCHANGED <<now, config, users_collection, movie_oids,
                       cinema_halls_collection, screens_collection,
                       shows_collection, bookings_collection, tokens>>

\* (mutant) {"movie_id": ObjectId(id)}, which no stored string equals
delete_many_filter_by_oid(show, id) == FALSE

\* the filter {"movie_id": id} of delete_many
delete_many_filter(show, id) == show.movie_id = id

\* (mutant) the cascade goes on to the bookings
delete_movie_shows_and_bookings(p) ==
    LET r == req[p]
    IN  /\ r.pc = "delete_many"
        /\ shows_collection' =
                SelectSeq(shows_collection,
                          LAMBDA s : ~delete_many_filter(s, r.body.id))
        /\ bookings_collection' = <<>>
        /\ req' = Respond(p, Response(200, "Movie and related shows deleted"))
        /\ UNCHANGED <<now, config, users_collection,
                       movies_collection, movie_oids, cinema_halls_collection,
                       screens_collection, tokens>>

\* delete_movie from there: shows_collection.delete_many({"movie_id": id})
delete_movie_shows(p) ==
    LET r == req[p]
    IN  /\ r.pc = "delete_many"
        /\ shows_collection' =
                SelectSeq(shows_collection,
                          LAMBDA s : ~delete_many_filter(s, r.body.id))
        /\ req' = Respond(p, Response(200, "Movie and related shows deleted"))
        /\ UNCHANGED <<now, config, users_collection,
                       movies_collection, movie_oids, cinema_halls_collection,
                       screens_collection, bookings_collection, tokens>>

(***************************************************************************)
(* The read routes: Depends(get_current_user), then the lookups.           *)
(***************************************************************************)
read_movie(p, cred, body) ==
    LET err == DependencyError("read_movie", cred)
        hit == IF ValidObjectId(body.id) THEN MoviesWithId(ObjectId(body.id)) ELSE {}
    IN  /\ Free(p)
        /\ req' = [req EXCEPT ![p] = Done("read_movie", cred,
                IF err # NoResponse THEN err
                ELSE IF ~ValidObjectId(body.id) THEN InvalidId
                ELSE IF hit = {} THEN MovieNotFound
                ELSE Payload(<<CHOOSE m \in hit : TRUE>>))]
        /\ UNCHANGED <<now, config, collections, movie_oids, tokens>>

\* the movies that match the query; the model keeps no genre or rating, and
\* no title of the model is part of another, so the title regex is equality
search_movies(p, cred, title) ==
    LET err == DependencyError("search_movies", cred)
        movies == {m \in movies_collection : title = "-" \/ m.title = title}
    IN  /\ Free(p)
        /\ req' = [req EXCEPT ![p] = Done("search_movies", cred,
                IF err # NoResponse THEN err ELSE Payload(<<movies>>))]
        /\ UNCHANGED <<now, config, collections, movie_oids, tokens>>

\* the shows of a movie, each with its movie's title; ObjectId(show["movie_id"])
\* raises on a show whose movie_id is no ObjectId
search_shows(p, cred, body) ==
    LET err == DependencyError("search_shows", cred)
        found == SelectSeq(shows_collection, LAMBDA s : s.movie_id = body.movie_id)
        shows == SubSeq(found, 1, IF Len(found) < ResultCap THEN Len(found)
                                  ELSE ResultCap)
        bad == \E i \in 1..Len(shows) : ~ValidObjectId(shows[i].movie_id)
        movie_title(s) ==
            LET hit == MoviesWithId(ObjectId(s.movie_id))
            IN  IF hit = {} THEN "None" ELSE (CHOOSE m \in hit : TRUE).title
    IN  /\ Free(p)
        /\ req' = [req EXCEPT ![p] = [Done("search_shows", cred,
                IF err # NoResponse THEN err
                ELSE IF bad THEN InvalidId
                ELSE Payload([i \in 1..Len(shows) |->
                        [movie_id |-> shows[i].movie_id,
                         movie_title |-> movie_title(shows[i])]]))
                    EXCEPT !.body = body]]
        /\ UNCHANGED <<now, config, collections, movie_oids, tokens>>

(***************************************************************************)
(* The clock.                                                              *)
(***************************************************************************)
Tick(d) ==
    /\ now + d \in Times
    /\ now' = now + d
    /\ UNCHANGED <<config, collections, movie_oids, tokens, req>>

(***************************************************************************)
(* Startup.  main.py imports database.py, whose module code reads          *)
(* MONGODB_URL and makes the client, and then runs its own module code,    *)
(* which reads SECRET_KEY, ALGORITHM and ACCESS_TOKEN_EXPIRE_MINUTES and    *)
(* makes the app.  os.getenv gives None for a name that is not set.        *)
(***************************************************************************)
\* database.py: AsyncIOMotorClient(None) is a client of the default host, and
\* nothing connects before the first storage operation
import_database ==
    /\ process = "database"
    /\ process' = "main"
    /\ UNCHANGED <<now, environ, ACCESS_TOKEN_EXPIRE_MINUTES, collections,
                   movie_oids, tokens, req>>

\* main.py:14-21: SECRET_KEY and ALGORITHM are kept as os.getenv gives them;
\* int(None) raises TypeError, which ends the import and with it the process
import_main(minutes) ==
    /\ process = "main"
    /\ IF "ACCESS_TOKEN_EXPIRE_MINUTES" \in environ
       THEN /\ ACCESS_TOKEN_EXPIRE_MINUTES' = minutes
            /\ process' = "serving"
       ELSE /\ process' = "failed"
            /\ UNCHANGED ACCESS_TOKEN_EXPIRE_MINUTES
    /\ UNCHANGED <<now, environ, collections, movie_oids, tokens, req>>

(***************************************************************************)
(* The server after startup: empty collections, no request.                *)
(***************************************************************************)
Init ==
    /\ now = 0
    /\ environ = ConfigNames
    /\ process = "serving"
    /\ ACCESS_TOKEN_EXPIRE_MINUTES \in 0..MaxTtlMinutes
    /\ users_collection = <<>>
    /\ movies_collection = {}
    /\ movie_oids = 0
    /\ cinema_halls_collection = <<>>
    /\ screens_collection = <<>>
    /\ shows_collection = <<>>
    /\ bookings_collection = <<>>
    /\ tokens = {}
    /\ req = [p \in Procs |-> Idle]

Next ==
    \/ \E e \in Emails, pw \in Passwords, a \in IsAdminFields : create_user(e, pw, a)
    \/ \E e \in Emails, pw \in Passwords \cup {WrongPassword} :
            login_for_access_token(e, pw)
    \/ \E p \in Procs, c \in Credentials, b \in BookingBodies : create_booking(p, c, b)
    \/ \E p \in Procs : create_booking_query(p)
    \/ \E p \in Procs : create_booking_upsert(p)
    \/ \E p \in Procs : client_abort(p)
    \/ \E p \in Procs, c \in Credentials : create_cinema_hall(p, c)
    \/ \E p \in Procs, c \in Credentials : create_screen(p, c)
    \/ \E p \in Procs, c \in Credentials, b \in ShowBodies : create_show(p, c, b)
    \/ \E p \in Procs, c \in Credentials, b \in MovieBodies : create_movie(p, c, b)
    \/ \E p \in Procs, c \in Credentials, b \in MovieUpdateBodies : update_movie(p, c, b)
    \/ \E p \in Procs, c \in Credentials, b \in MovieIdBodies : delete_movie(p, c, b)
    \/ \E p \in Procs : delete_movie_shows(p)
    \/ \E p \in Procs, c \in Credentials, b \in MovieIdBodies : read_movie(p, c, b)
    \/ \E p \in Procs, c \in Credentials, t \in Titles \cup {"-"} : search_movies(p, c, t)
    \/ \E p \in Procs, c \in Credentials, b \in ShowBodies : search_shows(p, c, b)
    \/ \E p \in Procs : Reply(p)
    \/ \E d \in {1, TicksPerSecond, TicksPerMinute} : Tick(d)
    \/ import_database
    \/ \E m \in 0..MaxTtlMinutes : import_main(m)

Spec == Init /\ [][Next]_vars

(***************************************************************************)
(* The booking ledger on its own: signup, login, bookings by the holders   *)
(* of tokens, shows created beside them; the clock stands still.           *)
(***************************************************************************)
InitLedger == Init /\ ACCESS_TOKEN_EXPIRE_MINUTES = MaxTtlMinutes

NextLedger ==
    \/ \E e \in Emails, pw \in Passwords, a \in IsAdminFields : create_user(e, pw, a)
    \/ \E e \in Emails, pw \in Passwords \cup {WrongPassword} :
            login_for_access_token(e, pw)
    \/ \E p \in Procs, c \in IssuedTokens, b \in BookingBodies : create_booking(p, c, b)
    \/ \E p \in Procs : create_booking_query(p)
    \/ \E p \in Procs : create_booking_upsert(p)
    \/ \E p \in Procs, c \in IssuedTokens, b \in ShowBodies : create_show(p, c, b)
    \/ \E p \in Procs : Reply(p)

SpecLedger == InitLedger /\ [][NextLedger]_vars

(***************************************************************************)
(* Authentication on its own: signup, login, the clock, and one worker     *)
(* serving the read routes to any caller and the other routes to callers   *)
(* whose credential does not authenticate.                                 *)
(***************************************************************************)
Solo == {1}

\* the credential is none of: a token made with SECRET_KEY, not expired,
\* naming a subject that has a user record
Rejected(c) ==
    \/ c.kind # "jwt"
    \/ c.sig # "SECRET_KEY"
    \/ c.exp < timegm(now)
    \/ c.sub = NoSub
    \/ \A i \in 1..Len(users_collection) : users_collection[i].email # c.sub
Rejects == {c \in Credentials : Rejected(c)}

NextAuthn ==
    \/ \E e \in Emails, pw \in Passwords : create_user(e, pw, "false")
    \/ \E e \in Emails, pw \in Passwords \cup {WrongPassword} :
            login_for_access_token(e, pw)
    \/ \E p \in Solo, c \in Rejects, b \in BookingBodies : create_booking(p, c, b)
    \/ \E p \in Solo, c \in Rejects : create_cinema_hall(p, c)
    \/ \E p \in Solo, c \in Rejects : create_screen(p, c)
    \/ \E p \in Solo, c \in Rejects, b \in ShowBodies : create_show(p, c, b)
    \/ \E p \in Solo, c \in Rejects, b \in MovieBodies : create_movie(p, c, b)
    \/ \E p \in Solo, c \in Rejects, b \in MovieUpdateBodies : update_movie(p, c, b)
    \/ \E p \in Solo, c \in Rejects, b \in MovieIdBodies : delete_movie(p, c, b)
    \/ \E p \in Solo, c \in Credentials, b \in MovieIdBodies : read_movie(p, c, b)
    \/ \E p \in Solo, c \in Credentials, t \in Titles \cup {"-"} :
            search_movies(p, c, t)
    \/ \E p \in Solo, c \in Credentials, b \in ShowBodies : search_shows(p, c, b)
    \/ \E p \in Solo : Reply(p)
    \/ \E d \in {1, TicksPerMinute} : Tick(d)

SpecAuthn == Init /\ [][NextAuthn]_vars

(***************************************************************************)
(* Authorization on its own: signup, login, and one worker serving every   *)
(* route to the holders of tokens and to callers without one; the clock    *)
(* stands still and one seat is asked for.                                 *)
(***************************************************************************)
AdminCreds == IssuedTokens \cup {NoToken}
AdminBooking ==
    [NoBody EXCEPT !.show_id = "S", !.seat_number = MinSeat, !.user_id = str(1)]

NextAdmin ==
    \/ \E e \in Emails, pw \in Passwords, a \in IsAdminFields : create_user(e, pw, a)
    \/ \E e \in Emails, pw \in Passwords \cup {WrongPassword} :
            login_for_access_token(e, pw)
    \/ \E p \in Solo, c \in AdminCreds : create_booking(p, c, AdminBooking)
    \/ \E p \in Solo : create_booking_query(p)
    \/ \E p \in Solo : create_booking_upsert(p)
    \/ \E p \in Solo, c \in AdminCreds : create_cinema_hall(p, c)
    \/ \E p \in Solo, c \in AdminCreds : create_screen(p, c)
    \/ \E p \in Solo, c \in AdminCreds, b \in ShowBodies : create_show(p, c, b)
    \/ \E p \in Solo, c \in AdminCreds, b \in MovieBodies : create_movie(p, c, b)
    \/ \E p \in Solo, c \in AdminCreds, b \in MovieUpdateBodies : update_movie(p, c, b)
    \/ \E p \in Solo, c \in AdminCreds, b \in MovieIdBodies : delete_movie(p, c, b)
    \/ \E p \in Solo : delete_movie_shows(p)
    \/ \E p \in Solo, c \in AdminCreds, b \in MovieIdBodies : read_movie(p, c, b)
    \/ \E p \in Solo, c \in AdminCreds, t \in Titles \cup {"-"} :
            search_movies(p, c, t)
    \/ \E p \in Solo, c \in AdminCreds, b \in ShowBodies : search_shows(p, c, b)
    \/ \E p \in Solo : Reply(p)

SpecAdmin == InitLedger /\ [][NextAdmin]_vars

(***************************************************************************)
(* The catalog on its own: admins sign up and log in, and two workers      *)
(* serve movie creation and deletion, show creation and show lookup at the *)
(* same time; the clock stands still.                                      *)
(***************************************************************************)
NextCatalog ==
    \/ \E e \in Emails, pw \in Passwords : create_user(e, pw, "true")
    \/ \E e \in Emails, pw \in Passwords \cup {WrongPassword} :
            login_for_access_token(e, pw)
    \/ \E p \in Procs, c \in IssuedTokens, b \in MovieBodies : create_movie(p, c, b)
    \/ \E p \in Procs, c \in IssuedTokens, b \in ShowBodies : create_show(p, c, b)
    \/ \E p \in Procs, c \in IssuedTokens, b \in MovieIdBodies : delete_movie(p, c, b)
    \/ \E p \in Procs : delete_movie_shows(p)
    \/ \E p \in Procs, c \in IssuedTokens, b \in ShowBodies : search_shows(p, c, b)
    \/ \E p \in Procs : Reply(p)

SpecCatalog == InitLedger /\ [][NextCatalog]_vars

(***************************************************************************)
(* Bookings whose clients go away: signup, login, two workers serving      *)
(* bookings of the seats of one show, and clients that leave before the    *)
(* response; the clock stands still.                                       *)
(***************************************************************************)
AbortBookings ==
    {[NoBody EXCEPT !.show_id = "S", !.seat_number = n, !.user_id = str(1)] :
        n \in Seats}

NextAbort ==
    \/ \E e \in Emails, pw \in Passwords : create_user(e, pw, "false")
    \/ \E e \in Emails, pw \in Passwords \cup {WrongPassword} :
            login_for_access_token(e, pw)
    \/ \E p \in Procs, c \in IssuedTokens, b \in AbortBookings : create_booking(p, c, b)
    \/ \E p \in Procs : create_booking_query(p)
    \/ \E p \in Procs : create_booking_upsert(p)
    \/ \E p \in Procs : client_abort(p)
    \/ \E p \in Procs : Reply(p)

SpecAbort == InitLedger /\ [][NextAbort]_vars

(***************************************************************************)
(* Startup on its own: the process starts in any environment, and once it  *)
(* serves, it serves signup, login and one worker's movie searches.        *)
(***************************************************************************)
InitStartup ==
    /\ now = 0
    /\ environ \in SUBSET ConfigNames
    /\ process = "database"
    /\ ACCESS_TOKEN_EXPIRE_MINUTES = 0
    /\ users_collection = <<>>
    /\ movies_collection = {}
    /\ movie_oids = 0
    /\ cinema_halls_collection = <<>>
    /\ screens_collection = <<>>
    /\ shows_collection = <<>>
    /\ bookings_collection = <<>>
    /\ tokens = {}
    /\ req = [p \in Procs |-> Idle]

Serving ==
    \/ \E e \in Emails, pw \in Passwords, a \in IsAdminFields : create_user(e, pw, a)
    \/ \E e \in Emails, pw \in Passwords \cup {WrongPassword} :
            login_for_access_token(e, pw)
    \/ \E p \in Solo, c \in IssuedTokens \cup {NoToken} : search_movies(p, c, "-")
    \/ \E p \in Solo : Reply(p)

NextStartup ==
    \/ import_database
    \/ \E m \in 0..MaxTtlMinutes : import_main(m)
    \/ process = "serving" /\ Serving

SpecStartup == InitStartup /\ [][NextStartup]_vars

(***************************************************************************)
(* The booking ledger's claims.                                            *)
(***************************************************************************)
Slots == ShowIds \X Seats
SlotDocs(slot) ==
    SelectSeq(bookings_collection,
              LAMBDA d : d.show_id = slot[1] /\ d.seat_number = slot[2])
Booked(slot) == SlotDocs(slot) # <<>>
Responded(p, op, status) ==
    req[p].pc = "done" /\ req[p].op = op /\ req[p].resp.status = status
SlotOf(p) == <<req[p].body.show_id, req[p].body.seat_number>>
SeatTaken == Response(400, "Seat already booked")
BookingSuccessful == Response(200, "Booking successful")

\* C1: of the create_booking requests served at the same time for one
\* (show_id, seat_number), at most one is answered with success, and a
\* second one is answered SeatTaken.
C1_OneWinner ==
    \A p, q \in Procs :
        (/\ p # q
         /\ Responded(p, "create_booking", 200)
         /\ req[q].op = "create_booking" /\ req[q].pc = "done"
         /\ req[q].resp.status # 401
         /\ SlotOf(p) = SlotOf(q))
        => req[q].resp = SeatTaken

\* C2: the bookings collection never holds two documents with the same
\* (show_id, seat_number).
C2_AtMostOneBookingPerSlot ==
    \A slot \in Slots : Len(SlotDocs(slot)) <= 1

\* C3: a slot that is Booked stays Booked with the booking it has: no step
\* changes, removes or adds a document of a slot that already has one.
C3_BookedIsTerminal ==
    [][\A slot \in Slots : Booked(slot) => SlotDocs(slot)' = SlotDocs(slot)]_vars

\* C4: the step of create_booking that finds a document for its
\* (show_id, seat_number) answers SeatTaken and changes no collection.
C4_SeatTakenLeavesStorage ==
    [][\A p \in Procs :
        (/\ req[p].pc = "find_one_and_update"
         /\ req'[p] # req[p]
         /\ Booked(SlotOf(p)))
        => /\ req'[p].pc = "done"
           /\ req'[p].resp = SeatTaken
           /\ UNCHANGED collections]_vars

C4_Witness ==
    \E p \in Procs :
        /\ Responded(p, "create_booking", 400)
        /\ Len(SlotDocs(SlotOf(p))) = 1
        /\ SlotDocs(SlotOf(p))[1].user_id # str(req[p].user._id)

\* C5: every document added to the bookings collection carries as user_id
\* the id of the user that the request's token resolves to, whatever
\* user_id the request body gave.
C5_BookingIsTheCallers ==
    [][bookings_collection' # bookings_collection =>
        \E p \in Procs :
            /\ req[p].pc = "upsert" /\ req'[p].pc = "done"
            /\ get_current_user_ok(req[p].cred)
            /\ bookings_collection' = Append(bookings_collection,
                    [show_id |-> req[p].body.show_id,
                     seat_number |-> req[p].body.seat_number,
                     user_id |-> str(get_user(req[p].cred.sub)._id)])]_vars

C5_Witness ==
    \E p \in Procs :
        /\ Responded(p, "create_booking", 200)
        /\ req[p].body.user_id # str(get_user(req[p].cred.sub)._id)
        /\ \E i \in 1..Len(SlotDocs(SlotOf(p))) :
              SlotDocs(SlotOf(p))[i].user_id = str(get_user(req[p].cred.sub)._id)

Takes(p) == req[p].pc = "idle" /\ req'[p].pc # "idle"

\* C7: a request to an authenticated endpoint whose credential is missing,
\* malformed, wrongly signed, expired, without subject or of an unknown
\* subject is answered 401 with the Bearer challenge at once, and the step
\* changes no collection.
C7_UnauthenticatedIsChallenged ==
    [][\A p \in Procs :
        (Takes(p) /\ req'[p].op \in AuthenticatedOps /\ Rejected(req'[p].cred))
        => /\ req'[p].pc = "done"
           /\ req'[p].resp.status = 401
           /\ req'[p].resp.headers = Bearer
           /\ req'[p].user = NoUser
           /\ UNCHANGED collections]_vars

C7_Witness ==
    \E p \in Procs :
        /\ Responded(p, "create_movie", 401)
        /\ req[p].cred \in IssuedTokens
        /\ req[p].cred.exp < timegm(now)
        /\ req[p].resp.headers = Bearer

\* the user record that find_one gives for the subject of c is an admin's
IsAdmin(c) ==
    \E i \in 1..Len(users_collection) :
        /\ users_collection[i].email = c.sub
        /\ users_collection[i].is_admin
        /\ \A j \in 1..(i - 1) : users_collection[j].email # c.sub

\* C8: an administrative mutation is answered 401 to a caller that does not
\* authenticate and 403 to an authenticated caller that is no admin, both
\* without a change to any collection; the catalog changes only in steps of
\* an administrative request of an admin; and an authenticated non-admin is
\* refused neither the read endpoints nor create_booking.
C8_AdminOnly ==
    [][/\ \A p \in Procs :
            (Takes(p) /\ req'[p].op \in AdminOps)
            => IF Rejected(req'[p].cred)
               THEN req'[p].resp.status = 401 /\ UNCHANGED collections
               ELSE IF ~IsAdmin(req'[p].cred)
               THEN /\ req'[p].pc = "done"
                    /\ req'[p].resp.status = 403
                    /\ UNCHANGED collections
               ELSE req'[p].resp.status \notin {401, 403}
       /\ \A p \in Procs :
            (/\ Takes(p)
             /\ req'[p].op \in ReadOps \cup {"create_booking"}
             /\ ~Rejected(req'[p].cred))
            => req'[p].resp.status \notin {401, 403}
       /\ (catalog' # catalog)
            => \E p \in Procs :
                /\ req'[p] # req[p]
                /\ req'[p].op \in AdminOps
                /\ req'[p].user.is_admin]_vars

C8_Witness ==
    \E p \in Procs :
        /\ Responded(p, "delete_movie", 403)
        /\ req[p].user # NoUser
        /\ ~req[p].user.is_admin
        /\ movies_collection # {}

\* C9 as stated: a request with a token that /token returned resolves to the
\* token's subject when it is made before the ttl has elapsed, and is
\* answered 401 when it is made after the token's expiry.
C9_ExpiryToTheInstant ==
    [][\A p \in Procs : \A t \in tokens :
        (Takes(p) /\ req'[p].cred = t.jwt)
        => /\ (now < t.iat + ACCESS_TOKEN_EXPIRE_MINUTES * TicksPerMinute)
                => /\ req'[p].user.email = t.jwt.sub
                   /\ req'[p].resp.status # 401
           /\ (now > t.jwt.exp * TicksPerSecond)
                => req'[p].resp = credentials_exception]_vars

\* C9 as amended: it resolves to the subject before the ttl has elapsed, and
\* is answered 401 once the clock's whole second is past the token's expiry.
C9_ExpiryToTheSecond ==
    [][\A p \in Procs : \A t \in tokens :
        (Takes(p) /\ req'[p].cred = t.jwt)
        => /\ (now < t.iat + ACCESS_TOKEN_EXPIRE_MINUTES * TicksPerMinute)
                => /\ req'[p].user.email = t.jwt.sub
                   /\ req'[p].resp.status # 401
           /\ (timegm(now) > t.jwt.exp)
                => req'[p].resp = credentials_exception]_vars

C9_Witness ==
    \E p \in Procs : \E t \in tokens :
        /\ Responded(p, "search_movies", 401)
        /\ req[p].cred = t.jwt
        /\ timegm(now) > t.jwt.exp
        /\ get_user(t.jwt.sub) # NoUser

\* a request that failed authentication, with its response
AuthFailed(p) ==
    /\ req[p].pc = "done"
    /\ req[p].op \in AuthenticatedOps
    /\ req[p].resp.status = 401

\* C10 as stated: the response to a request that failed authentication is
\* the response of every other request to that endpoint that fails it,
\* whatever the reasons.
C10_SameResponse ==
    \A p \in Procs :
        AuthFailed(p) =>
            \A c \in Rejects : DependencyError(req[p].op, c) = req[p].resp

\* C10 as amended: the two responses have the same status and headers, and
\* are identical when both requests carry a credential or both carry none.
C10_SameChallenge ==
    \A p \in Procs :
        AuthFailed(p) =>
            \A c \in Rejects :
                LET other == DependencyError(req[p].op, c)
                IN  /\ other.status = req[p].resp.status
                    /\ other.headers = req[p].resp.headers
                    /\ ((c.kind = "none") <=> (req[p].cred.kind = "none"))
                        => other = req[p].resp

C10_Witness ==
    \E p \in Procs :
        /\ AuthFailed(p)
        /\ req[p].cred \in IssuedTokens
        /\ Malformed \in Rejects
        /\ DependencyError(req[p].op, Malformed) = req[p].resp
        /\ DependencyError(req[p].op, NoToken) # req[p].resp

(***************************************************************************)
(* The user records' claims.                                               *)
(***************************************************************************)
\* C11: the users collection never holds two user records with the same
\* email.
C11_EmailsAreUnique ==
    \A i, j \in 1..Len(users_collection) :
        users_collection[i].email = users_collection[j].email => i = j

(***************************************************************************)
(* The catalog's claims.                                                   *)
(***************************************************************************)
\* the shows that name the movie id string m
ShowsOf(m) == SelectSeq(shows_collection, LAMBDA s : s.movie_id = m)

\* the movie ids that were handed out and whose movie is gone, no
\* delete_movie for them being still on its way to its response
DeletedMovieIds ==
    {str(i) : i \in {k \in 1..movie_oids : MoviesWithId(k) = {}}}
        \ {req[p].body.id : p \in {q \in Procs : req[q].pc = "delete_many"}}

AbortedBeforeInsert(p) == req[p].aborted \in {"find_one_and_update", "upsert"}

\* what is in the bookings collection stays in it as it is
BookingsKept ==
    /\ Len(bookings_collection') >= Len(bookings_collection)
    /\ \A i \in 1..Len(bookings_collection) :
            bookings_collection'[i] = bookings_collection[i]

\* C13 as stated: a create_booking request whose client went away before
\* its insert changes no collection, in the step of the abort and in every
\* later step of the request; and a booking that was inserted stays.
C13_AbortedLeavesNoTrace ==
    [][/\ \A p \in Procs :
            (req'[p] # req[p] /\ (AbortedBeforeInsert(p) \/ AbortedBeforeInsert(p)'))
            => UNCHANGED collections
       /\ BookingsKept]_vars

\* C13 as amended: the step in which the client goes away changes no
\* collection, and a request cancelled before its command has left changes
\* none ever; a command that has left is not stopped: it inserts the
\* booking exactly when it finds the slot free, as if the client had
\* stayed.  Every step of a request changes the bookings collection by at
\* most one whole appended record and changes no other collection, and a
\* booking that was inserted stays whatever is aborted afterwards.
C13_AbortStopsNoIssuedCommand ==
    [][/\ \A p \in Procs :
            /\ (req[p].aborted = "-" /\ req'[p].aborted # "-") => UNCHANGED collections
            /\ (req[p].pc \in {"find_one_and_update", "upsert"} /\ req'[p] = Idle)
                => UNCHANGED collections
            /\ (req[p].pc = "upsert" /\ req'[p].pc = "done")
                => /\ req'[p].resp = BookingSuccessful
                   /\ bookings_collection' = Append(bookings_collection,
                        [show_id |-> req[p].body.show_id,
                         seat_number |-> req[p].body.seat_number,
                         user_id |-> str(req[p].user._id)])
            /\ (req[p].pc = "find_one_and_update" /\ req'[p].pc = "done")
                => req'[p].resp = SeatTaken /\ UNCHANGED collections
       /\ BookingsKept
       /\ Len(bookings_collection') <= Len(bookings_collection) + 1
       /\ (bookings_collection' # bookings_collection)
            => UNCHANGED <<users_collection, catalog>>]_vars

\* the client left while the server was between its query and its insert,
\* the booking was inserted all the same, and another request for the slot
\* has been refused
C13_Witness ==
    \E p, q \in Procs :
        /\ Responded(p, "create_booking", 200)
        /\ req[p].aborted = "upsert"
        /\ Responded(q, "create_booking", 400)
        /\ req[q].aborted = "-"
        /\ SlotOf(q) = SlotOf(p)
        /\ Len(SlotDocs(SlotOf(p))) = 1
        /\ SlotDocs(SlotOf(p))[1].user_id = str(req[p].user._id)

(***************************************************************************)
(* The frame of the user records.                                          *)
(***************************************************************************)
\* what is in the users collection stays in it as it is
UsersKept ==
    /\ Len(users_collection') >= Len(users_collection)
    /\ \A i \in 1..Len(users_collection) :
            users_collection'[i] = users_collection[i]

\* C14: no step changes or removes a user record; a step that adds one is a
\* signup and adds one record, with the email of the signup body, the hash
\* of its password, and as is_admin the body's value, false when left out.
C14_UsersAreImmutable ==
    [][/\ UsersKept
       /\ Len(users_collection') <= Len(users_collection) + 1
       /\ (users_collection' # users_collection)
            => UNCHANGED <<catalog, bookings_collection, tokens, req>>
       /\ \A e \in Emails, pw \in Passwords, f \in IsAdminFields :
            create_user(e, pw, f) =>
                LET new == users_collection'[Len(users_collection')]
                IN  /\ Len(users_collection') = Len(users_collection) + 1
                    /\ new.email = e
                    /\ new.password = <<"bcrypt", pw>>
                    /\ new.is_admin = (f = "true")]_vars

\* an admin and a user signed up, and since then the admin has logged in,
\* created and deleted a movie and a booking has been made
C14_Witness ==
    /\ Len(users_collection) = 2
    /\ users_collection[1].is_admin
    /\ ~users_collection[2].is_admin
    /\ users_collection[1].email = users_collection[2].email
    /\ movie_oids = 1 /\ movies_collection = {}
    /\ bookings_collection # <<>>
    /\ \E p \in Procs : Responded(p, "search_movies", 200)

(***************************************************************************)
(* The startup's claim.                                                    *)
(***************************************************************************)
\* C15: the process serves requests only if all four configuration values
\* were set at startup.
C15_MissingConfigIsFatal ==
    process = "serving" => environ = ConfigNames

(***************************************************************************)
(* The token service's claims.                                             *)
(***************************************************************************)
\* C16: every token that /token returned embeds, in the whole seconds of
\* its exp field, the instant of its making plus the configured
\* ACCESS_TOKEN_EXPIRE_MINUTES, also when that is zero.
C16_ExpiryIsNowPlusTtl ==
    \A t \in tokens :
        t.jwt.exp = timegm(t.iat + ACCESS_TOKEN_EXPIRE_MINUTES * TicksPerMinute)

\* a user record has the email and a hash that the password verifies against
Verifies(email, password) ==
    \E i \in 1..Len(users_collection) :
        /\ users_collection[i].email = email
        /\ users_collection[i].password = <<"bcrypt", password>>

\* C17: a step of /token adds a token only when a user record has the
\* submitted email and a hash the submitted password verifies against, and
\* the token's subject is the submitted email; a login with an email that
\* has no record and a login with a wrong password are answered with one
\* and the same 401 and add no token.
C17_TokensAreOfUsers ==
    [][/\ \A e \in Emails, pw \in Passwords \cup {WrongPassword} :
            login_for_access_token(e, pw) =>
                /\ Verifies(e, pw)
                /\ \A t \in tokens' \ tokens : t.jwt.sub = e /\ t.iat = now
       /\ \A t \in tokens' \ tokens :
            \E i \in 1..Len(users_collection) :
                users_collection[i].email = t.jwt.sub
       /\ \A e \in Emails \cup {GhostEmail}, pw \in Passwords \cup {WrongPassword} :
            ~Verifies(e, pw) =>
                /\ login_for_access_token_response(e, pw).status = 401
                /\ login_for_access_token_response(e, pw).headers = Bearer
                /\ login_for_access_token_response(e, pw) =
                        login_for_access_token_response(GhostEmail, WrongPassword)
                /\ (tokens' # tokens) => ~login_for_access_token(e, pw)]_vars

\* one email has a user record and a token, the other has none: a login
\* with the other email and one with the first and a wrong password get
\* the same 401
C17_Witness ==
    /\ \E t \in tokens : t.jwt.sub = "a@x.io"
    /\ Verifies("a@x.io", "pw1")
    /\ get_user("b@x.io") = NoUser
    /\ login_for_access_token_response("b@x.io", "pw1").status = 401
    /\ login_for_access_token_response("b@x.io", "pw1") =
            login_for_access_token_response("a@x.io", WrongPassword)

(***************************************************************************)
(* The frame of the bookings.                                              *)
(***************************************************************************)
\* C18: a step changes the bookings collection only if it is the step in
\* which a create_booking request succeeds, and it then appends one record
\* and keeps the others; every other step, of delete_movie among them,
\* leaves the collection as it is, and a slot that is Booked stays Booked.
C18_OnlyBookingsAddBookings ==
    [][/\ (bookings_collection' # bookings_collection) =>
            /\ \E p \in Procs :
                    /\ req[p].op = "create_booking"
                    /\ req[p].pc # "done"
                    /\ req'[p].pc = "done"
                    /\ req'[p].resp = BookingSuccessful
            /\ Len(bookings_collection') = Len(bookings_collection) + 1
            /\ BookingsKept
       /\ (\E p \in Procs :
                /\ req'[p] # req[p]
                /\ ~(/\ req'[p].op = "create_booking"
                      /\ req'[p].pc = "done"
                      /\ req'[p].resp = BookingSuccessful))
            => UNCHANGED bookings_collection
       /\ (users_collection' # users_collection \/ tokens' # tokens
                \/ catalog' # catalog)
            => UNCHANGED bookings_collection
       /\ \A slot \in Slots : Booked(slot) => Booked(slot)']_vars

\* a movie has been deleted while a booking was there, and the booking is
\* still there
C18_Witness ==
    \E p \in Procs :
        /\ Responded(p, "delete_movie", 200)
        /\ movie_oids = 1 /\ movies_collection = {}
        /\ Booked(<<"S", MinSeat>>)

\* C19: every record of the bookings collection has as user_id the id of a
\* record of the users collection.
C19_BookingsAreOfUsers ==
    \A i \in 1..Len(bookings_collection) :
        \E j \in 1..Len(users_collection) :
            bookings_collection[i].user_id = str(users_collection[j]._id)

\* the one user there is has booked with a body that names a user_id no
\* user record has
C19_Witness ==
    \E p \in Procs :
        /\ Responded(p, "create_booking", 200)
        /\ Len(users_collection) = 1
        /\ req[p].body.user_id = str(2)
        /\ Len(SlotDocs(SlotOf(p))) = 1
        /\ SlotDocs(SlotOf(p))[1].user_id = str(users_collection[1]._id)

====
